---------------------------- MODULE Spec2Model ----------------------------
(***************************************************************************)
(* TextLineServer: a threaded TCP server (src/server.py) that answers      *)
(* "is this exact line in the source file?" with one of two literals.      *)
(*                                                                         *)
(* Bytes and characters are one-element strings; a byte string, a decoded  *)
(* str and the content of the source file are sequences of them.           *)
(***************************************************************************)
EXTENDS Integers, Sequences, FiniteSets, TLC

\* ------------------------------------------------------------------ bounds
NumConns   == 2     \* connections the model follows
RecvSize   == 2     \* bytes one recv() may return (1024 in the code, scaled)
MaxFileLen == 3     \* characters of the source file (server specification)
FnFileLen  == 4     \* characters of the source file (function specification)
FnReqLen   == 3     \* bytes of a request (function specification)
MaxPad     == 2     \* trailing 0x00 bytes added to a request

\* -------------------------------------------------------------- alphabets
LF  == "\n"
SP  == " "
NUL == "NUL"        \* the byte 0x00
BAD == "xFF"        \* a byte that is no valid UTF-8 (dropped by errors='ignore')

Conn == 1..NumConns

RECURSIVE SeqsUpTo(_, _)
SeqsUpTo(S, n) ==
    IF n = 0 THEN {<<>>}
    ELSE LET shorter == SeqsUpTo(S, n - 1)
         IN  shorter \cup {Append(s, x) : s \in shorter, x \in S}

\* ----------------------------------------------------- the two responses
EXISTS    == "STRING EXISTS\n"
NOT_FOUND == "STRING NOT FOUND\n"

\* the literals without their line feed
ResponseNoNewline(found) == IF found THEN "STRING EXISTS" ELSE "STRING NOT FOUND"

\* server.py:156-157  response = "STRING EXISTS\n" if search_file(query) else ...
Response(found) == IF found THEN EXISTS ELSE NOT_FOUND

\* ------------------------------------------------------- string functions
\* bytes.rstrip(b'\x00') / str.rstrip('\n'): drop every trailing c
RECURSIVE RStrip(_, _)
RStrip(s, c) ==
    IF s = <<>> THEN s
    ELSE IF s[Len(s)] = c THEN RStrip(SubSeq(s, 1, Len(s) - 1), c)
    ELSE s

RECURSIVE LStrip(_, _)
LStrip(s, W) ==
    IF s = <<>> THEN s
    ELSE IF s[1] \in W THEN LStrip(Tail(s), W)
    ELSE s

RECURSIVE RStripSet(_, _)
RStripSet(s, W) ==
    IF s = <<>> THEN s
    ELSE IF s[Len(s)] \in W THEN RStripSet(SubSeq(s, 1, Len(s) - 1), W)
    ELSE s

\* str.strip(): drop leading and trailing whitespace
Whitespace == {SP, LF}
StrStrip(s) == RStripSet(LStrip(s, Whitespace), Whitespace)

\* only one trailing 0x00 is dropped
StripOneNul(data) ==
    IF data # <<>> /\ data[Len(data)] = NUL
    THEN SubSeq(data, 1, Len(data) - 1)
    ELSE data

\* server.py:146  stripped_data = data.rstrip(b'\x00')
StripNul(data) == RStrip(data, NUL)

\* server.py:151  stripped_data.decode('utf-8', errors='ignore')
Decode(bytes) == SelectSeq(bytes, LAMBDA b : b # BAD)

\* server.py:146-151  the query handed to search_file
QueryOf(data) == Decode(StripNul(data))

\* ------------------------------------------------------------ file reading
\* One iteration of "for line in f" from offset pos: the characters up to and
\* including the next LF, or up to the end of the file; <<>> at end of file.
LineEnd(F, pos) ==
    LET nl == {i \in (pos + 1)..Len(F) : F[i] = LF}
    IN  IF nl = {} THEN Len(F)
        ELSE CHOOSE i \in nl : \A j \in nl : i <= j

ReadLine(F, pos) == SubSeq(F, pos + 1, LineEnd(F, pos))

\* every line "for line in f" yields on an unchanging file, from offset pos
RECURSIVE LinesFrom(_, _)
LinesFrom(F, pos) ==
    IF ReadLine(F, pos) = <<>> THEN <<>>
    ELSE <<ReadLine(F, pos)>> \o LinesFrom(F, pos + Len(ReadLine(F, pos)))

FileLines(F) == LinesFrom(F, 0)

\* server.py:99  {line.rstrip('\n') for line in f if line.strip()}
LoadFile(F) ==
    {RStrip(FileLines(F)[i], LF) :
        i \in {j \in 1..Len(FileLines(F)) : StrStrip(FileLines(F)[j]) # <<>>}}

\* q is a line of F that ends with its line feed: such a line stays what it
\* is when more is written after the end of F
IsCompleteLine(F, q) ==
    /\ \A i \in 1..Len(q) : q[i] # LF
    /\ \E s \in 0..Len(F) :
          /\ s = 0 \/ F[s] = LF
          /\ s + Len(q) < Len(F)
          /\ SubSeq(F, s + 1, s + Len(q)) = q
          /\ F[s + Len(q) + 1] = LF

\* server.py:124  query in self.file_lines
SearchCached(lines, q) == q \in lines

\* the line is compared with its terminator still on
LineMatchesRaw(line, q) == line = q

\* server.py:117  line.rstrip('\n') == query
LineMatches(line, q) == RStrip(line, LF) = q

\* server.py:116-119  the whole scan of an unchanging, readable file
RECURSIVE ScanFrom(_, _, _)
ScanFrom(F, pos, q) ==
    IF ReadLine(F, pos) = <<>> THEN FALSE
    ELSE IF LineMatches(ReadLine(F, pos), q) THEN TRUE
    ELSE ScanFrom(F, pos + Len(ReadLine(F, pos)), q)


\* ------------------------------------------------------------------ state
FileChar == {"a", LF}               \* characters of the source file
ReqByte  == {"a", NUL}              \* bytes a peer sends

Files    == SeqsUpTo(FileChar, MaxFileLen)
Requests == SeqsUpTo(ReqByte, RecvSize)

VARIABLES
    file,             \* content of the file at linuxpath (owned externally)
    openable,         \* open(linuxpath) succeeds (file present and readable)
    reread_on_query,  \* ServerConfig.reread_on_query
    file_lines,       \* ServerConfig.file_lines
    accepting,        \* serve_forever() is running its accept loop
    pc,               \* per connection: where its handler thread is
    data,             \* per connection: what recv(1024) returned
    query,            \* per connection: the decoded query
    found,            \* per connection: what search_file returned
    out,              \* per connection: the frames sendall() wrote
    pos,              \* per connection: offset of the open file handle
    dirty,            \* per connection: the file was edited during its scan
    errs,             \* per connection: logger.error records, by call site
    stale,            \* per connection: its cached lookup ran after an edit
    edited,           \* the file was edited or revoked since startup
    had,              \* per connection: the query was a complete line when
                      \* its scan opened the file, which has only grown since
    fn_pc, fn_file, fn_req, fn_res,   \* the function specification (below)
    boot,             \* the startup of the process (startup specification)
    inbuf,            \* per connection: bytes the peer sent, not yet received
    peer,             \* per connection: what the peer did to the connection
    cli               \* the interactive client (client specification)

srv_vars == <<file, openable, reread_on_query, file_lines, accepting,
              pc, data, query, found, out, pos, dirty, errs, stale, edited,
              had>>
fn_vars  == <<fn_pc, fn_file, fn_req, fn_res>>
env_vars == <<boot, inbuf, peer, cli>>
vars     == <<srv_vars, fn_vars, env_vars>>

NoResults == [cached |-> "", reread |-> "", cachedPad |-> "", rereadPad |-> "",
              pad |-> 0]

FnIdle == fn_pc = "off" /\ fn_file = <<>> /\ fn_req = <<>> /\ fn_res = NoResults

\* server.py:81  config_dict.get('port', 44445)
\* the process has started with the default port; no peer and no client is
\* followed byte by byte
DefaultPort == 44445
BootServing == [phase |-> "serving", port |-> DefaultPort]
CliOff      == [pc |-> "off"]

EnvIdle ==
    /\ boot = BootServing
    /\ inbuf = [c \in Conn |-> <<>>]
    /\ peer = [c \in Conn |-> "open"]
    /\ cli = CliOff

\* server.py:80-89 and 189-191: the state once ServerConfig is built and
\* serve_forever() has started; no connection has arrived yet.
Init ==
    /\ file \in Files
    /\ openable = TRUE
    /\ reread_on_query \in BOOLEAN
    /\ file_lines = IF reread_on_query THEN {} ELSE LoadFile(file)
    /\ accepting = TRUE
    /\ pc = [c \in Conn |-> "idle"]
    /\ data = [c \in Conn |-> <<>>]
    /\ query = [c \in Conn |-> <<>>]
    /\ found = [c \in Conn |-> FALSE]
    /\ out = [c \in Conn |-> <<>>]
    /\ pos = [c \in Conn |-> 0]
    /\ dirty = [c \in Conn |-> FALSE]
    /\ errs = [c \in Conn |-> {}]
    /\ stale = [c \in Conn |-> FALSE]
    /\ edited = FALSE
    /\ had = [c \in Conn |-> FALSE]
    /\ FnIdle
    /\ EnvIdle

cfg_unchanged  == UNCHANGED <<reread_on_query, file_lines>>
disk_unchanged == UNCHANGED <<file, openable, edited>>

\* a server that runs the handler in the accept loop itself: the next
\* connection is accepted once the handler of the previous one has returned
AcceptOneAtATime(c) ==
    /\ accepting
    /\ pc[c] = "idle"
    /\ \A d \in Conn \ {c} : pc[d] \in {"idle", "closed"}
    /\ pc' = [pc EXCEPT ![c] = "recv"]
    /\ UNCHANGED <<data, query, found, out, pos, dirty, had, errs>>
    /\ cfg_unchanged /\ disk_unchanged /\ UNCHANGED <<accepting, stale, fn_vars, env_vars>>

\* ---------------------------------------------------------- the handler
\* server.py:167-174, 191: the accept loop hands a new connection to a new
\* thread, which starts MyTCPHandler.handle and blocks in recv.
Accept(c) ==
    /\ accepting
    /\ pc[c] = "idle"
    /\ pc' = [pc EXCEPT ![c] = "recv"]
    /\ UNCHANGED <<data, query, found, out, pos, dirty, had, errs>>
    /\ cfg_unchanged /\ disk_unchanged /\ UNCHANGED <<accepting, stale, fn_vars, env_vars>>

\* server.py:142-151: recv returns d (no byte at all when the peer has closed),
\* the handler strips and decodes it.
RecvReturns(c, d) ==
    /\ pc[c] = "recv"
    /\ data' = [data EXCEPT ![c] = d]
    /\ query' = [query EXCEPT ![c] = QueryOf(d)]
    /\ pc' = [pc EXCEPT ![c] = "search"]
    /\ UNCHANGED <<found, out, pos, dirty, had, errs>>
    /\ cfg_unchanged /\ disk_unchanged
    /\ UNCHANGED <<accepting, stale, fn_vars, boot, cli>>

\* the same when the peer's bytes are not followed one by one: d is any
\* byte string one recv can return
Recv(c, d) ==
    /\ RecvReturns(c, d)
    /\ UNCHANGED <<inbuf, peer>>

\* the exception leaves handle and ends serve_forever
HandleErrorStopsServer(c) ==
    /\ pc' = [pc EXCEPT ![c] = "finished"]
    /\ errs' = [errs EXCEPT ![c] = @ \cup {"handle"}]
    /\ accepting' = FALSE

\* server.py:164-165: an exception in handle is logged, handle returns
HandleError(c) ==
    /\ pc' = [pc EXCEPT ![c] = "finished"]
    /\ errs' = [errs EXCEPT ![c] = @ \cup {"handle"}]
    /\ UNCHANGED accepting

\* server.py:142: recv raises (connection reset)
RecvError(c) ==
    /\ pc[c] = "recv"
    /\ HandleError(c)
    /\ UNCHANGED <<data, query, found, out, pos, dirty, had>>
    /\ cfg_unchanged /\ disk_unchanged /\ UNCHANGED <<stale, fn_vars, env_vars>>

\* the query is kept in a field of the shared server object, which the
\* handler that decoded last has overwritten
SearchQueryShared(c) ==
    LET busy == {d \in Conn : pc[d] \in {"search", "scan"}}
    IN  query[CHOOSE d \in busy : \A e \in busy : d >= e]

\* server.py:156: the query the handler passes to search_file
SearchQuery(c) == query[c]

\* the lookup refreshes the set from the file first
SearchCachedFileReload(c) ==
    /\ pc[c] = "search"
    /\ ~reread_on_query
    /\ file_lines' = LoadFile(file)
    /\ found' = [found EXCEPT ![c] = SearchCached(file_lines', SearchQuery(c))]
    /\ pc' = [pc EXCEPT ![c] = "send"]
    /\ stale' = [stale EXCEPT ![c] = edited]
    /\ UNCHANGED <<data, query, out, pos, dirty, had, errs, reread_on_query>>
    /\ disk_unchanged /\ UNCHANGED <<accepting, fn_vars, env_vars>>

\* a lookup that takes the line it finds out of the cached set
SearchCachedFileConsumes(c) ==
    /\ pc[c] = "search"
    /\ ~reread_on_query
    /\ found' = [found EXCEPT ![c] = SearchCached(file_lines, SearchQuery(c))]
    /\ file_lines' = file_lines \ {SearchQuery(c)}
    /\ pc' = [pc EXCEPT ![c] = "send"]
    /\ stale' = [stale EXCEPT ![c] = edited]
    /\ UNCHANGED <<data, query, out, pos, dirty, had, errs, reread_on_query>>
    /\ disk_unchanged /\ UNCHANGED <<accepting, fn_vars, env_vars>>

\* server.py:113, 123-124: search_file without re-reading
SearchCachedFile(c) ==
    /\ pc[c] = "search"
    /\ ~reread_on_query
    /\ found' = [found EXCEPT ![c] = SearchCached(file_lines, SearchQuery(c))]
    /\ pc' = [pc EXCEPT ![c] = "send"]
    /\ stale' = [stale EXCEPT ![c] = edited]
    /\ UNCHANGED <<data, query, out, pos, dirty, had, errs>>
    /\ cfg_unchanged /\ disk_unchanged /\ UNCHANGED <<accepting, fn_vars, env_vars>>

\* search_file has no except clause: the exception reaches handle
SearchFailedRaises(c) ==
    /\ errs' = [errs EXCEPT ![c] = @ \cup {"handle"}]
    /\ pc' = [pc EXCEPT ![c] = "finished"]
    /\ pos' = [pos EXCEPT ![c] = 0]
    /\ dirty' = [dirty EXCEPT ![c] = FALSE]
    /\ had' = [had EXCEPT ![c] = FALSE]
    /\ UNCHANGED found

\* server.py:120-122: an exception in the scan is logged, search_file
\* returns False
SearchFailed(c) ==
    /\ found' = [found EXCEPT ![c] = FALSE]
    /\ pos' = [pos EXCEPT ![c] = 0]
    /\ dirty' = [dirty EXCEPT ![c] = FALSE]
    /\ had' = [had EXCEPT ![c] = FALSE]
    /\ errs' = [errs EXCEPT ![c] = @ \cup {"search_file"}]
    /\ pc' = [pc EXCEPT ![c] = "send"]

\* server.py:113-115: search_file opens the file
OpenFile(c) ==
    /\ pc[c] = "search"
    /\ reread_on_query
    /\ IF openable
       THEN /\ pc' = [pc EXCEPT ![c] = "scan"]
            /\ pos' = [pos EXCEPT ![c] = 0]
            /\ dirty' = [dirty EXCEPT ![c] = FALSE]
            /\ had' = [had EXCEPT ![c] = IsCompleteLine(file, query[c])]
            /\ UNCHANGED <<found, errs>>
       ELSE SearchFailed(c)
    /\ UNCHANGED <<data, query, out>>
    /\ cfg_unchanged /\ disk_unchanged /\ UNCHANGED <<accepting, stale, fn_vars, env_vars>>

\* server.py:115, 118-119: search_file returns b, the with block closes the file
ScanReturns(c, b) ==
    /\ found' = [found EXCEPT ![c] = b]
    /\ pc' = [pc EXCEPT ![c] = "send"]
    /\ pos' = [pos EXCEPT ![c] = 0]
    /\ dirty' = [dirty EXCEPT ![c] = FALSE]
    /\ had' = [had EXCEPT ![c] = FALSE]

\* all searches read through one shared file handle: a line one of them has
\* read is behind the position of every one of them
ScanLineSharedHandle(c) ==
    /\ pc[c] = "scan"
    /\ LET line == ReadLine(file, pos[c])
       IN  IF line = <<>>
           THEN ScanReturns(c, FALSE)
           ELSE IF LineMatches(line, SearchQuery(c))
           THEN ScanReturns(c, TRUE)
           ELSE /\ pos' = [d \in Conn |-> IF pc[d] = "scan"
                                          THEN pos[c] + Len(line)
                                          ELSE pos[d]]
                /\ UNCHANGED <<found, pc, dirty, had>>
    /\ UNCHANGED <<data, query, out, errs>>
    /\ cfg_unchanged /\ disk_unchanged /\ UNCHANGED <<accepting, stale, fn_vars, env_vars>>

\* server.py:116-119: one iteration of the scan, on the file as it is now
ScanLine(c) ==
    /\ pc[c] = "scan"
    /\ LET line == ReadLine(file, pos[c])
       IN  IF line = <<>>
           THEN ScanReturns(c, FALSE)
           ELSE IF LineMatches(line, SearchQuery(c))
           THEN ScanReturns(c, TRUE)
           ELSE /\ pos' = [pos EXCEPT ![c] = @ + Len(line)]
                /\ UNCHANGED <<found, pc, dirty, had>>
    /\ UNCHANGED <<data, query, out, errs>>
    /\ cfg_unchanged /\ disk_unchanged /\ UNCHANGED <<accepting, stale, fn_vars, env_vars>>

\* server.py:116, 120: a read of the open file raises part-way
ScanError(c) ==
    /\ pc[c] = "scan"
    /\ SearchFailed(c)
    /\ UNCHANGED <<data, query, out>>
    /\ cfg_unchanged /\ disk_unchanged /\ UNCHANGED <<accepting, stale, fn_vars, env_vars>>

\* a handler that loops: after its response it reads the next request
SendThenReadAgain(c) ==
    /\ pc[c] = "send"
    /\ out' = [out EXCEPT ![c] = Append(@, Response(found[c]))]
    /\ pc' = [pc EXCEPT ![c] = "recv"]
    /\ UNCHANGED <<data, query, found, pos, dirty, had, errs>>
    /\ cfg_unchanged /\ disk_unchanged /\ UNCHANGED <<accepting, stale, fn_vars, env_vars>>

\* server.py:156-163: the response is built and sent in one sendall
Send(c) ==
    /\ pc[c] = "send"
    /\ out' = [out EXCEPT ![c] = Append(@, Response(found[c]))]
    /\ pc' = [pc EXCEPT ![c] = "finished"]
    /\ UNCHANGED <<data, query, found, pos, dirty, had, errs>>
    /\ cfg_unchanged /\ disk_unchanged /\ UNCHANGED <<accepting, stale, fn_vars, env_vars>>

\* server.py:163: sendall raises (connection reset, broken pipe)
SendError(c) ==
    /\ pc[c] = "send"
    /\ HandleError(c)
    /\ UNCHANGED <<data, query, found, out, pos, dirty, had>>
    /\ cfg_unchanged /\ disk_unchanged /\ UNCHANGED <<stale, fn_vars, env_vars>>

\* server.py:167: ThreadingTCPServer closes the socket once handle returned
Close(c) ==
    /\ pc[c] = "finished"
    /\ pc' = [pc EXCEPT ![c] = "closed"]
    /\ UNCHANGED <<data, query, found, out, pos, dirty, had, errs>>
    /\ cfg_unchanged /\ disk_unchanged /\ UNCHANGED <<accepting, stale, fn_vars, env_vars>>

\* ------------------------------------------- the external owner of the file
conn_unchanged == UNCHANGED <<pc, data, query, found, out, pos, errs, stale>>

Edited ==
    /\ dirty' = [c \in Conn |-> dirty[c] \/ pc[c] = "scan"]
    /\ edited' = TRUE

\* a complete line is appended to the file
AppendLine(L) ==
    /\ Len(file) + Len(L) + 1 <= MaxFileLen
    /\ file' = file \o L \o <<LF>>
    /\ Edited
    /\ UNCHANGED <<openable, had>>
    /\ conn_unchanged /\ cfg_unchanged /\ UNCHANGED <<accepting, fn_vars, env_vars>>

\* the file is cut down to its first n characters
TruncateFile(n) ==
    /\ n < Len(file)
    /\ file' = SubSeq(file, 1, n)
    /\ Edited
    /\ had' = [c \in Conn |-> FALSE]
    /\ UNCHANGED openable
    /\ conn_unchanged /\ cfg_unchanged /\ UNCHANGED <<accepting, fn_vars, env_vars>>

\* the file is deleted or its read permission revoked: open() fails from now on
RevokeFile ==
    /\ openable
    /\ openable' = FALSE
    /\ edited' = TRUE
    /\ UNCHANGED <<file, dirty, had>>
    /\ conn_unchanged /\ cfg_unchanged /\ UNCHANGED <<accepting, fn_vars, env_vars>>

\* the file is put back with the content it had
RestoreFile ==
    /\ ~openable
    /\ openable' = TRUE
    /\ UNCHANGED <<file, dirty, had, edited>>
    /\ conn_unchanged /\ cfg_unchanged /\ UNCHANGED <<accepting, fn_vars, env_vars>>

LineChar == FileChar \ {LF}

Next ==
    \/ \E c \in Conn : Accept(c)
    \/ \E c \in Conn : \E d \in Requests : Recv(c, d)
    \/ \E c \in Conn : RecvError(c)
    \/ \E c \in Conn : SearchCachedFile(c)
    \/ \E c \in Conn : OpenFile(c)
    \/ \E c \in Conn : ScanLine(c)
    \/ \E c \in Conn : ScanError(c)
    \/ \E c \in Conn : Send(c)
    \/ \E c \in Conn : SendError(c)
    \/ \E c \in Conn : Close(c)
    \/ \E L \in SeqsUpTo(LineChar, MaxFileLen) : AppendLine(L)
    \/ \E n \in 0..MaxFileLen : TruncateFile(n)
    \/ RevokeFile
    \/ RestoreFile

Spec == Init /\ [][Next]_vars

\* ---------------------------------------- scans against an appending writer
\* REREAD_ON_QUERY True, and the only thing that happens to the file is that
\* a writer appends to it, in pieces that need not end with a line: every
\* search opens its own handle (server.py:115) and reads on while the file
\* grows.
ScanFileLen == 4
ScanChunk   == 2

ScanInit ==
    /\ file \in SeqsUpTo(FileChar, ScanFileLen - 1)
    /\ openable = TRUE
    /\ reread_on_query = TRUE
    /\ file_lines = {}
    /\ accepting = TRUE
    /\ pc = [c \in Conn |-> "idle"]
    /\ data = [c \in Conn |-> <<>>]
    /\ query = [c \in Conn |-> <<>>]
    /\ found = [c \in Conn |-> FALSE]
    /\ out = [c \in Conn |-> <<>>]
    /\ pos = [c \in Conn |-> 0]
    /\ dirty = [c \in Conn |-> FALSE]
    /\ errs = [c \in Conn |-> {}]
    /\ stale = [c \in Conn |-> FALSE]
    /\ edited = FALSE
    /\ had = [c \in Conn |-> FALSE]
    /\ FnIdle
    /\ EnvIdle

\* the writer appends s after the end of the file
AppendChunk(s) ==
    /\ s # <<>>
    /\ Len(file) + Len(s) <= ScanFileLen
    /\ file' = file \o s
    /\ Edited
    /\ UNCHANGED <<openable, had>>
    /\ conn_unchanged /\ cfg_unchanged /\ UNCHANGED <<accepting, fn_vars, env_vars>>

ScanNext ==
    \/ \E c \in Conn : Accept(c)
    \/ \E c \in Conn : \E d \in Requests : Recv(c, d)
    \/ \E c \in Conn : OpenFile(c)
    \/ \E c \in Conn : ScanLine(c)
    \/ \E c \in Conn : Send(c)
    \/ \E c \in Conn : Close(c)
    \/ \E s \in SeqsUpTo(FileChar, ScanChunk) : AppendChunk(s)

SpecScan == ScanInit /\ [][ScanNext]_vars

\* ----------------------------------------------------- the peer's bytes
\* The connection seen from the handler: inbuf[c] holds the bytes of the peer
\* that have arrived and that no recv has returned yet; the peer sends when
\* it wants, as much as it wants, or nothing; it may close its side or reset
\* the connection. The file is left alone.
WireLen   == 3
WireConns == 1

WireConn == 1..WireConns

Min(a, b) == IF a <= b THEN a ELSE b

\* a receive that reads until the peer has nothing more
RecvTakeAll(buf) == buf

\* server.py:142  recv(1024): the bytes that have arrived, 1024 at most
RecvTake(buf) == SubSeq(buf, 1, Min(RecvSize, Len(buf)))

Connected(c) == pc[c] \notin {"idle", "closed"}

wire_frame ==
    /\ UNCHANGED <<pc, data, query, found, out, pos, dirty, errs, stale, had>>
    /\ cfg_unchanged /\ disk_unchanged
    /\ UNCHANGED <<accepting, fn_vars, boot, cli>>

\* the peer sends s
PeerSend(c, s) ==
    /\ Connected(c) /\ peer[c] = "open"
    /\ s # <<>>
    /\ Len(data[c]) + Len(inbuf[c]) + Len(s) <= WireLen
    /\ inbuf' = [inbuf EXCEPT ![c] = @ \o s]
    /\ UNCHANGED peer
    /\ wire_frame

\* the peer closes its side of the connection
PeerShut(c) ==
    /\ Connected(c) /\ peer[c] = "open"
    /\ peer' = [peer EXCEPT ![c] = "shut"]
    /\ UNCHANGED inbuf
    /\ wire_frame

\* the peer resets the connection; what it had sent is dropped
PeerReset(c) ==
    /\ Connected(c) /\ peer[c] = "open"
    /\ peer' = [peer EXCEPT ![c] = "reset"]
    /\ inbuf' = [inbuf EXCEPT ![c] = <<>>]
    /\ wire_frame

\* server.py:142: recv returns once bytes have arrived or the peer has
\* closed (then with no byte); the socket has no timeout, so until then the
\* handler waits
RecvWire(c) ==
    /\ peer[c] # "reset"
    /\ inbuf[c] # <<>> \/ peer[c] = "shut"
    /\ LET d == RecvTake(inbuf[c])
       IN  /\ RecvReturns(c, d)
           /\ inbuf' = [inbuf EXCEPT ![c] = SubSeq(@, Len(d) + 1, Len(@))]
    /\ UNCHANGED peer

\* server.py:142, 164: recv raises ConnectionResetError
RecvErrorWire(c) ==
    /\ peer[c] = "reset"
    /\ RecvError(c)

\* server.py:163: sendall to a connection that has not been reset
SendWire(c) ==
    /\ peer[c] # "reset"
    /\ Send(c)

\* server.py:163, 164: sendall raises on a connection that has been reset
SendErrorWire(c) ==
    /\ peer[c] = "reset"
    /\ SendError(c)

\* the steps of the handler of connection c and of the server closing it
HandlerStep(c) ==
    \/ RecvWire(c)
    \/ RecvErrorWire(c)
    \/ SearchCachedFile(c)
    \/ OpenFile(c)
    \/ ScanLine(c)
    \/ SendWire(c)
    \/ SendErrorWire(c)
    \/ Close(c)

WireNext ==
    \/ \E c \in WireConn : Accept(c)
    \/ \E c \in WireConn : \E s \in SeqsUpTo(ReqByte, WireLen) : PeerSend(c, s)
    \/ \E c \in WireConn : PeerShut(c)
    \/ \E c \in WireConn : PeerReset(c)
    \/ \E c \in WireConn : HandlerStep(c)

SpecWire == Init /\ [][WireNext]_vars

\* ------------------------------------------------------------- the client
\* client.py main: one socket made before the loop; every query typed is
\* sent on it by query_server, which returns what one recv gives, decoded
\* and stripped; when query_server raises socket.error the loop closes the
\* socket, connects again and calls query_server once more. The server is
\* up and handles each of the client's connections as above.
MaxQueries == 2

\* what the user types, stripped and not empty (client.py:108-111)
CliQueries == SeqsUpTo({"a"}, RecvSize) \ {<<>>}

\* client.py:86  decode and strip: the response without its line feed, the
\* empty string for no byte at all
AnswerOf(bytes) ==
    CASE bytes = EXISTS    -> "STRING EXISTS"
      [] bytes = NOT_FOUND -> "STRING NOT FOUND"
      [] OTHER             -> bytes

CliStart ==
    [pc |-> "connect", sock |-> 0, socks |-> 0, query |-> <<>>,
     retry |-> FALSE, got |-> FALSE, rst |-> FALSE, asked |-> 0,
     answers |-> <<>>]

CliInit ==
    /\ file \in Files
    /\ openable = TRUE
    /\ reread_on_query \in BOOLEAN
    /\ file_lines = IF reread_on_query THEN {} ELSE LoadFile(file)
    /\ accepting = TRUE
    /\ pc = [c \in Conn |-> "idle"]
    /\ data = [c \in Conn |-> <<>>]
    /\ query = [c \in Conn |-> <<>>]
    /\ found = [c \in Conn |-> FALSE]
    /\ out = [c \in Conn |-> <<>>]
    /\ pos = [c \in Conn |-> 0]
    /\ dirty = [c \in Conn |-> FALSE]
    /\ errs = [c \in Conn |-> {}]
    /\ stale = [c \in Conn |-> FALSE]
    /\ edited = FALSE
    /\ had = [c \in Conn |-> FALSE]
    /\ FnIdle
    /\ boot = BootServing
    /\ inbuf = [c \in Conn |-> <<>>]
    /\ peer = [c \in Conn |-> "open"]
    /\ cli = CliStart

srv_unchanged ==
    /\ UNCHANGED <<pc, data, query, found, out, pos, dirty, errs, stale, had>>
    /\ cfg_unchanged /\ disk_unchanged
    /\ UNCHANGED <<accepting, fn_vars, boot>>

\* client.py:52-56  create_connection: a new connection to the server
CliConnected == [cli EXCEPT !.sock = cli.socks + 1, !.socks = cli.socks + 1,
                            !.got = FALSE, !.rst = FALSE]

\* client.py:90-92 and 114-128: query_server raises socket.error; the loop
\* reconnects after the first call, gives up after the second
CliRaised == [cli EXCEPT !.pc = IF cli.retry THEN "done" ELSE "reconnect"]

\* client.py:100  the socket made before the loop
CliConnect ==
    /\ cli.pc = "connect"
    /\ cli.socks < NumConns
    /\ cli' = [CliConnected EXCEPT !.pc = "prompt"]
    /\ UNCHANGED <<inbuf, peer>>
    /\ srv_unchanged

\* client.py:108  the user types q
CliInput(q) ==
    /\ cli.pc = "prompt"
    /\ cli.asked < MaxQueries
    /\ cli' = [cli EXCEPT !.pc = "send", !.query = q, !.retry = FALSE,
                          !.asked = cli.asked + 1]
    /\ UNCHANGED <<inbuf, peer>>
    /\ srv_unchanged

\* client.py:78-83  the frame is the query and a line feed; one longer than
\* 1024 bytes raises ValueError, which the loop answers with the next
\* prompt; otherwise sendall. On a socket the server has closed the first
\* sendall succeeds and is answered by a reset, a later one raises
\* BrokenPipeError.
CliSend ==
    /\ cli.pc = "send"
    /\ LET frame == cli.query \o <<LF>>
           c     == cli.sock
       IN  IF Len(frame) > RecvSize
           THEN /\ cli' = [cli EXCEPT !.pc = "prompt"]
                /\ UNCHANGED inbuf
           ELSE IF pc[c] # "closed"
           THEN /\ inbuf' = [inbuf EXCEPT ![c] = @ \o frame]
                /\ cli' = [cli EXCEPT !.pc = "recv"]
           ELSE IF ~cli.rst
           THEN /\ cli' = [cli EXCEPT !.pc = "recv", !.rst = TRUE]
                /\ UNCHANGED inbuf
           ELSE /\ cli' = CliRaised
                /\ UNCHANGED inbuf
    /\ UNCHANGED peer
    /\ srv_unchanged

\* client.py:86-88  recv returns the response the server sent on this socket
CliRecv ==
    /\ cli.pc = "recv"
    /\ ~cli.got /\ out[cli.sock] # <<>>
    /\ cli' = [cli EXCEPT !.pc = "prompt", !.got = TRUE,
                          !.answers = Append(@, AnswerOf(out[cli.sock][1]))]
    /\ UNCHANGED <<inbuf, peer>>
    /\ srv_unchanged

\* client.py:86-88  recv on a socket whose response has been read and that
\* the server has closed, having read all it was sent: no byte, which is end
\* of stream and no error, also when a reset has come in since
CliRecvEof ==
    /\ cli.pc = "recv"
    /\ cli.got /\ pc[cli.sock] = "closed" /\ inbuf[cli.sock] = <<>>
    /\ cli' = [cli EXCEPT !.pc = "prompt", !.answers = Append(@, AnswerOf(""))]
    /\ UNCHANGED <<inbuf, peer>>
    /\ srv_unchanged

\* client.py:86, 90  the server closed the socket with bytes of the client
\* unread, which resets the connection: ConnectionResetError
CliRecvReset ==
    /\ cli.pc = "recv"
    /\ cli.got /\ pc[cli.sock] = "closed" /\ inbuf[cli.sock] # <<>>
    /\ cli' = CliRaised
    /\ UNCHANGED <<inbuf, peer>>
    /\ srv_unchanged

\* client.py:53, 86, 90  nothing to read for 5 seconds: socket.timeout
CliRecvTimeout ==
    /\ cli.pc = "recv"
    /\ pc[cli.sock] # "closed"
    /\ cli.got \/ out[cli.sock] = <<>>
    /\ cli' = CliRaised
    /\ UNCHANGED <<inbuf, peer>>
    /\ srv_unchanged

\* client.py:117-124  close, connect again, call query_server again
CliReconnect ==
    /\ cli.pc = "reconnect"
    /\ cli.socks < NumConns
    /\ peer' = [peer EXCEPT ![cli.sock] = "shut"]
    /\ cli' = [CliConnected EXCEPT !.pc = "send", !.retry = TRUE]
    /\ UNCHANGED inbuf
    /\ srv_unchanged

\* the server accepts a connection the client has made
AcceptCli(c) ==
    /\ c <= cli.socks
    /\ Accept(c)

CliNext ==
    \/ CliConnect
    \/ \E q \in CliQueries : CliInput(q)
    \/ CliSend
    \/ CliRecv
    \/ CliRecvEof
    \/ CliRecvReset
    \/ CliRecvTimeout
    \/ CliReconnect
    \/ \E c \in Conn : AcceptCli(c)
    \/ \E c \in Conn : RecvWire(c)
    \/ \E c \in Conn : SearchCachedFile(c)
    \/ \E c \in Conn : OpenFile(c)
    \/ \E c \in Conn : ScanLine(c)
    \/ \E c \in Conn : SendWire(c)
    \/ \E c \in Conn : Close(c)

SpecCli == CliInit /\ [][CliNext]_vars

\* ------------------------------------------------------------------ startup
\* main (server.py:176-194): parse_config, ServerConfig, MyTCPServer (bind
\* and listen), serve_forever. An exception in any of them is logged and
\* raised again, which ends the process.
\*
\* The configuration file is the mapping configparser makes of it: option
\* names in lower case, values as strings. A value is a sequence of
\* characters; Absent stands for an option that is not there, NoValue for
\* the value of such an option (None), which is no sequence of characters.
Absent  == "absent"
NoValue == <<Absent>>

MaxPortLen  == 2
BootFileLen == 2
BootConns   == 1

BootConn == 1..BootConns

\* str.lower(), on the letters the tokens below are made of
LowerChar(ch) ==
    CASE ch = "T" -> "t" [] ch = "R" -> "r" [] ch = "U" -> "u"
      [] ch = "E" -> "e" [] ch = "F" -> "f" [] ch = "A" -> "a"
      [] ch = "L" -> "l" [] ch = "S" -> "s" [] OTHER -> ch

Lower(str) == [i \in 1..Len(str) |-> LowerChar(str[i])]

TrueToken  == <<"t", "r", "u", "e">>
FalseToken == <<"f", "a", "l", "s", "e">>

RereadTokens ==
    { <<"T", "r", "u", "e">>, TrueToken, <<"F", "A", "L", "S", "E">>,
      FalseToken, <<"y", "e", "s">>, <<"1">>, <<>> }

\* int(str), on strings of digits with or without a minus sign in front
Digit    == {"0", "8"}
PortChar == Digit \cup {"-", "a"}

DigitVal(ch) == IF ch = "8" THEN 8 ELSE 0

RECURSIVE DigitsVal(_)
DigitsVal(ds) ==
    IF ds = <<>> THEN 0
    ELSE 10 * DigitsVal(SubSeq(ds, 1, Len(ds) - 1)) + DigitVal(ds[Len(ds)])

ParseInt(str) ==
    LET neg    == str # <<>> /\ str[1] = "-"
        digits == IF neg THEN Tail(str) ELSE str
    IN  IF digits # <<>> /\ \A i \in 1..Len(digits) : digits[i] \in Digit
        THEN [ok |-> TRUE,
              val |-> IF neg THEN 0 - DigitsVal(digits) ELSE DigitsVal(digits)]
        ELSE [ok |-> FALSE, val |-> 0]

PortTokens == SeqsUpTo(PortChar, MaxPortLen)

\* what a path names: nothing, a directory, or the regular file whose
\* content is the variable file; the empty string is a path too
PathValues == {"", "nofile", "dir", "file"}

\* Path(p).is_file()
IsFile(p) == p = "file"

\* the options of the configuration file: the name of its path option
\* (none, linuxpath, or a longer name that starts with linuxpath), the
\* values of the path option, of reread_on_query and of port
PathKeys == {Absent, "linuxpath", "linuxpath_old"}

Inis ==
    [pathkey : PathKeys, path : PathValues,
     reread : RereadTokens \cup {NoValue}, port : PortTokens \cup {NoValue}]

\* the dictionaries ServerConfig can be given: its keys linuxpath,
\* REREAD_ON_QUERY and port, each there or not
Dicts ==
    [linuxpath : PathValues \cup {Absent},
     REREAD_ON_QUERY : RereadTokens \cup {NoValue},
     port : PortTokens \cup {NoValue}]

NoDict == [linuxpath |-> Absent, REREAD_ON_QUERY |-> NoValue, port |-> NoValue]

\* server.py:47-66  parse_config, after config.read
parse_config(ini) ==
    IF ini.pathkey # Absent /\ ini.path = ""
    THEN [ok |-> FALSE, err |-> "ValueError", dict |-> NoDict]
    ELSE IF ini.reread # NoValue /\ Lower(ini.reread) \notin {TrueToken, FalseToken}
    THEN [ok |-> FALSE, err |-> "ValueError", dict |-> NoDict]
    ELSE IF ini.pathkey = Absent \/ ini.reread = NoValue
    THEN [ok |-> FALSE, err |-> "ValueError", dict |-> NoDict]
    ELSE [ok |-> TRUE, err |-> "none",
          dict |-> [linuxpath |-> ini.path, REREAD_ON_QUERY |-> ini.reread,
                    port |-> ini.port]]

\* a ServerConfig that leaves the file alone until the first search
ServerConfigLoadsLater(dict, F, readable) ==
    LET port   == IF dict.port = NoValue THEN [ok |-> TRUE, val |-> DefaultPort]
                  ELSE ParseInt(dict.port)
        reread == Lower(dict.REREAD_ON_QUERY) = TrueToken
        fail(e) == [ok |-> FALSE, err |-> e, port |-> 0,
                    reread_on_query |-> FALSE, file_lines |-> {}]
    IN  IF ~port.ok THEN fail("ValueError")
        ELSE IF dict.linuxpath = Absent THEN fail("ValueError")
        ELSE IF ~IsFile(dict.linuxpath) THEN fail("FileNotFoundError")
        ELSE IF dict.REREAD_ON_QUERY = NoValue THEN fail("AttributeError")
        ELSE [ok |-> TRUE, err |-> "none", port |-> port.val,
              reread_on_query |-> reread, file_lines |-> {}]

\* server.py:80-89  ServerConfig.__init__ on the dictionary dict, when the
\* regular file has content F and can or cannot be opened for reading
ServerConfig(dict, F, readable) ==
    LET port   == IF dict.port = NoValue THEN [ok |-> TRUE, val |-> DefaultPort]
                  ELSE ParseInt(dict.port)
        reread == Lower(dict.REREAD_ON_QUERY) = TrueToken
        fail(e) == [ok |-> FALSE, err |-> e, port |-> 0,
                    reread_on_query |-> FALSE, file_lines |-> {}]
    IN  IF ~port.ok THEN fail("ValueError")
        ELSE IF dict.linuxpath = Absent THEN fail("ValueError")
        ELSE IF ~IsFile(dict.linuxpath) THEN fail("FileNotFoundError")
        ELSE IF dict.REREAD_ON_QUERY = NoValue THEN fail("AttributeError")
        ELSE IF ~reread /\ ~readable THEN fail("OSError")
        ELSE [ok |-> TRUE, err |-> "none", port |-> port.val,
              reread_on_query |-> reread,
              file_lines |-> IF reread THEN {} ELSE LoadFile(F)]

\* socket bind() takes ports 0..65535; 0 asks for any free port
MaxPortNumber == 65535
Bindable(port) == port \in 0..MaxPortNumber

handlers_idle ==
    UNCHANGED <<pc, data, query, found, out, pos, dirty, errs, stale, had>>

boot_frame ==
    /\ handlers_idle /\ disk_unchanged
    /\ UNCHANGED <<fn_vars, inbuf, peer, cli>>

BootInit ==
    /\ file \in SeqsUpTo(FileChar, BootFileLen)
    /\ openable \in BOOLEAN
    /\ boot \in [phase : {"start"}, ini : Inis, dict : {NoDict}, port : {0},
                 bound : {FALSE}, err : {"none"}]
    /\ reread_on_query = FALSE
    /\ file_lines = {}
    /\ accepting = FALSE
    /\ pc = [c \in Conn |-> "idle"]
    /\ data = [c \in Conn |-> <<>>]
    /\ query = [c \in Conn |-> <<>>]
    /\ found = [c \in Conn |-> FALSE]
    /\ out = [c \in Conn |-> <<>>]
    /\ pos = [c \in Conn |-> 0]
    /\ dirty = [c \in Conn |-> FALSE]
    /\ errs = [c \in Conn |-> {}]
    /\ stale = [c \in Conn |-> FALSE]
    /\ edited = FALSE
    /\ had = [c \in Conn |-> FALSE]
    /\ FnIdle
    /\ inbuf = [c \in Conn |-> <<>>]
    /\ peer = [c \in Conn |-> "open"]
    /\ cli = CliOff

\* server.py:184  config_dict = parse_config()
ParseConfig ==
    /\ boot.phase = "start"
    /\ LET r == parse_config(boot.ini)
       IN  boot' = IF r.ok
                   THEN [boot EXCEPT !.phase = "parsed", !.dict = r.dict]
                   ELSE [boot EXCEPT !.phase = "failed", !.err = r.err]
    /\ UNCHANGED <<reread_on_query, file_lines, accepting>>
    /\ boot_frame

\* server.py:185  config = ServerConfig(config_dict)
BuildConfig ==
    /\ boot.phase = "parsed"
    /\ LET r == ServerConfig(boot.dict, file, openable)
       IN  IF r.ok
           THEN /\ boot' = [boot EXCEPT !.phase = "configured", !.port = r.port]
                /\ reread_on_query' = r.reread_on_query
                /\ file_lines' = r.file_lines
           ELSE /\ boot' = [boot EXCEPT !.phase = "failed", !.err = r.err]
                /\ UNCHANGED <<reread_on_query, file_lines>>
    /\ UNCHANGED accepting
    /\ boot_frame

\* server.py:189  MyTCPServer((host, config.port), ...): bind and listen
Bind ==
    /\ boot.phase = "configured"
    /\ boot' = IF Bindable(boot.port)
               THEN [boot EXCEPT !.phase = "bound", !.bound = TRUE]
               ELSE [boot EXCEPT !.phase = "failed", !.err = "OverflowError"]
    /\ UNCHANGED <<reread_on_query, file_lines, accepting>>
    /\ boot_frame

\* server.py:189: the port is taken, or not one this user may bind
BindError ==
    /\ boot.phase = "configured"
    /\ boot' = [boot EXCEPT !.phase = "failed", !.err = "OSError"]
    /\ UNCHANGED <<reread_on_query, file_lines, accepting>>
    /\ boot_frame

\* server.py:191  server.serve_forever()
ServeForever ==
    /\ boot.phase = "bound"
    /\ boot' = [boot EXCEPT !.phase = "serving"]
    /\ accepting' = TRUE
    /\ UNCHANGED <<reread_on_query, file_lines>>
    /\ boot_frame

BootNext ==
    \/ ParseConfig
    \/ BuildConfig
    \/ Bind
    \/ BindError
    \/ ServeForever
    \/ \E c \in BootConn : Accept(c)
    \/ \E c \in BootConn : \E d \in Requests : Recv(c, d)
    \/ \E c \in BootConn : SearchCachedFile(c)
    \/ \E c \in BootConn : OpenFile(c)
    \/ \E c \in BootConn : ScanLine(c)
    \/ \E c \in BootConn : Send(c)
    \/ \E c \in BootConn : Close(c)

SpecBoot == BootInit /\ [][BootNext]_vars

\* ServerConfig built from a dictionary of the caller's
NoIni == [pathkey |-> Absent, path |-> "", reread |-> NoValue, port |-> NoValue]

CfgInit ==
    /\ file \in SeqsUpTo(FileChar, BootFileLen)
    /\ openable \in BOOLEAN
    /\ boot \in [phase : {"parsed"}, ini : {NoIni}, dict : Dicts, port : {0},
                 bound : {FALSE}, err : {"none"}]
    /\ reread_on_query = FALSE
    /\ file_lines = {}
    /\ accepting = FALSE
    /\ pc = [c \in Conn |-> "idle"]
    /\ data = [c \in Conn |-> <<>>]
    /\ query = [c \in Conn |-> <<>>]
    /\ found = [c \in Conn |-> FALSE]
    /\ out = [c \in Conn |-> <<>>]
    /\ pos = [c \in Conn |-> 0]
    /\ dirty = [c \in Conn |-> FALSE]
    /\ errs = [c \in Conn |-> {}]
    /\ stale = [c \in Conn |-> FALSE]
    /\ edited = FALSE
    /\ had = [c \in Conn |-> FALSE]
    /\ FnIdle
    /\ inbuf = [c \in Conn |-> <<>>]
    /\ peer = [c \in Conn |-> "open"]
    /\ cli = CliOff

CfgNext == BuildConfig

SpecCfg == CfgInit /\ [][CfgNext]_vars

\* ------------------------------------------------ function specification
\* One request handled from start to end against a readable file nobody
\* edits, once by a ServerConfig built with REREAD_ON_QUERY False and once by
\* one built with True, then the same request with trailing 0x00 bytes.
FnFileChar == {"a", SP, LF}
FnReqByte  == {"a", SP, LF, NUL, BAD}

\* server.py:89, 104-124: ServerConfig(F, rr).search_file(q)
SearchFile(F, rr, q) ==
    IF rr THEN ScanFrom(F, 0, q)
    ELSE SearchCached(LoadFile(F), q)

\* server.py:142-163: the frame handle writes when recv returned d
HandleOn(F, rr, d) == Response(SearchFile(F, rr, QueryOf(d)))

Padded(d, k) == d \o [i \in 1..k |-> NUL]

SrvOff ==
    /\ file = <<>> /\ openable = TRUE /\ reread_on_query = FALSE
    /\ file_lines = {} /\ accepting = FALSE
    /\ pc = [c \in Conn |-> "idle"]
    /\ data = [c \in Conn |-> <<>>]
    /\ query = [c \in Conn |-> <<>>]
    /\ found = [c \in Conn |-> FALSE]
    /\ out = [c \in Conn |-> <<>>]
    /\ pos = [c \in Conn |-> 0]
    /\ dirty = [c \in Conn |-> FALSE]
    /\ errs = [c \in Conn |-> {}]
    /\ stale = [c \in Conn |-> FALSE]
    /\ edited = FALSE
    /\ had = [c \in Conn |-> FALSE]

FnInit ==
    /\ SrvOff
    /\ EnvIdle
    /\ fn_pc = "cached"
    /\ fn_file \in SeqsUpTo(FnFileChar, FnFileLen)
    /\ fn_req \in SeqsUpTo(FnReqByte, FnReqLen)
    /\ fn_res = NoResults

FnCached ==
    /\ fn_pc = "cached"
    /\ fn_res' = [fn_res EXCEPT !.cached = HandleOn(fn_file, FALSE, fn_req)]
    /\ fn_pc' = "reread"
    /\ UNCHANGED <<fn_file, fn_req, srv_vars, env_vars>>

FnReread ==
    /\ fn_pc = "reread"
    /\ fn_res' = [fn_res EXCEPT !.reread = HandleOn(fn_file, TRUE, fn_req)]
    /\ fn_pc' = "cachedPad"
    /\ UNCHANGED <<fn_file, fn_req, srv_vars, env_vars>>

FnCachedPad(k) ==
    /\ fn_pc = "cachedPad"
    /\ fn_res' = [fn_res EXCEPT
                    !.cachedPad = HandleOn(fn_file, FALSE, Padded(fn_req, k)),
                    !.pad = k]
    /\ fn_pc' = "rereadPad"
    /\ UNCHANGED <<fn_file, fn_req, srv_vars, env_vars>>

FnRereadPad ==
    /\ fn_pc = "rereadPad"
    /\ fn_res' = [fn_res EXCEPT
                    !.rereadPad = HandleOn(fn_file, TRUE, Padded(fn_req, fn_res.pad))]
    /\ fn_pc' = "done"
    /\ UNCHANGED <<fn_file, fn_req, srv_vars, env_vars>>

FnNext ==
    \/ FnCached
    \/ FnReread
    \/ \E k \in 0..MaxPad : FnCachedPad(k)
    \/ FnRereadPad

SpecFn == FnInit /\ [][FnNext]_vars

\* ----------------------------------------------------------------- claims
\* q is a line of F: q holds no line feed, starts at the start of F or right
\* after a line feed, and is followed by a line feed or (if not empty) by the
\* end of F.
IsLine(F, q) ==
    /\ \A i \in 1..Len(q) : q[i] # LF
    /\ \E s \in 0..Len(F) :
          /\ s = 0 \/ F[s] = LF
          /\ s + Len(q) <= Len(F)
          /\ SubSeq(F, s + 1, s + Len(q)) = q
          /\ \/ s + Len(q) < Len(F) /\ F[s + Len(q) + 1] = LF
             \/ s + Len(q) = Len(F) /\ Len(q) > 0

Returned(c) == pc[c] \in {"finished", "closed"}

\* C1: a request made of a line L of the file followed by one line feed is
\* answered STRING EXISTS, in both modes.
C1_LineFeedFrameExists ==
    ( /\ fn_pc \notin {"cached", "reread"}
      /\ fn_req # <<>>
      /\ fn_req[Len(fn_req)] = LF
      /\ IsLine(fn_file, SubSeq(fn_req, 1, Len(fn_req) - 1)) )
    => /\ fn_res.cached = "STRING EXISTS\n"
       /\ fn_res.reread = "STRING EXISTS\n"

\* C2: at most one frame per connection; exactly one when recv returned a
\* byte and no transport error occurred; a frame is STRING EXISTS\n when
\* search_file returned true and STRING NOT FOUND\n otherwise.
C2_OneResponse ==
    \A c \in Conn :
        /\ Len(out[c]) <= 1
        /\ (Returned(c) /\ data[c] # <<>> /\ "handle" \notin errs[c])
              => Len(out[c]) = 1
        /\ out[c] # <<>> =>
              /\ pc[c] \in {"finished", "closed"}
              /\ found[c] => out[c][1] = "STRING EXISTS\n"
              /\ ~found[c] => out[c][1] = "STRING NOT FOUND\n"

C2_Witness ==
    \E c \in Conn :
        /\ pc[c] = "closed" /\ data[c] # <<>> /\ errs[c] = {}
        /\ out[c] = <<"STRING EXISTS\n">>

\* C3: when recv returns no byte the handler returns without calling
\* search_file and without writing a response.
C3_EmptyRecvNoResponse ==
    \A c \in Conn :
        (pc[c] \notin {"idle", "recv"} /\ data[c] = <<>> /\ "handle" \notin errs[c])
            => (pc[c] \in {"search", "finished", "closed"} /\ out[c] = <<>>)

\* C4: on a file whose lines are unique and not empty (whitespace-only lines
\* included), both modes give the same answer to every query.
UniqueNonEmptyLines(F) ==
    LET ls == FileLines(F)
    IN  /\ \A i \in 1..Len(ls) : RStrip(ls[i], LF) # <<>>
        /\ \A i, j \in 1..Len(ls) : i # j => RStrip(ls[i], LF) # RStrip(ls[j], LF)

C4_ModesAgree ==
    (fn_pc \notin {"cached", "reread"} /\ UniqueNonEmptyLines(fn_file))
        => fn_res.cached = fn_res.reread

\* C5: in reread mode a search reflects the file as it is at the time of the
\* search: a scan during which nobody edited the file, and which did not
\* fail, returns true exactly when the query is a line of the file (so true
\* once the line has been appended, false once it has been removed).
C5_RereadFresh ==
    [][\A c \in Conn :
          ( /\ pc[c] = "scan" /\ pc'[c] = "send"
            /\ ~dirty[c]
            /\ errs'[c] = errs[c] )
          => (found'[c] <=> IsLine(file, query[c]))]_vars

C5_Witness ==
    \E c, d \in Conn :
        /\ c # d /\ reread_on_query /\ edited
        /\ query[c] = query[d]
        /\ errs[c] = {} /\ errs[d] = {}
        /\ Returned(c) /\ out[c] = <<"STRING EXISTS\n">>
        /\ Returned(d) /\ out[d] = <<"STRING NOT FOUND\n">>

\* C6: in cached mode nothing changes file_lines or reread_on_query, and
\* every lookup answers from the set loaded at startup without failing,
\* whatever has happened to the file since.
C6_CacheFrozen ==
    [][/\ file_lines' = file_lines
       /\ reread_on_query' = reread_on_query
       /\ \A c \in Conn :
             (~reread_on_query /\ pc[c] = "search" /\ pc'[c] # "search")
             => /\ pc'[c] = "send"
                /\ found'[c] <=> (query[c] \in file_lines)
                /\ errs'[c] = errs[c]]_vars

C6_Witness ==
    \E c \in Conn :
        /\ ~reread_on_query /\ stale[c] /\ Returned(c)
        /\ file_lines # LoadFile(file)
        /\ out[c] = <<"STRING EXISTS\n">>
        /\ ~IsLine(file, query[c])

\* C7: over an unchanged, readable file every connection that returns
\* without an error has been written exactly the response its own bytes
\* determine, the one it would get as the only connection.
C7_OwnResponse ==
    \A c \in Conn :
        (Returned(c) /\ errs[c] = {} /\ ~edited)
            => out[c] = <<HandleOn(file, reread_on_query, data[c])>>

C7_Witness ==
    \E c, d \in Conn :
        /\ c # d /\ ~edited
        /\ pc[c] = "finished" /\ pc[d] = "finished"
        /\ errs[c] = {} /\ errs[d] = {}
        /\ out[c] = <<"STRING EXISTS\n">>
        /\ out[d] = <<"STRING NOT FOUND\n">>

\* C8: in reread mode a search that cannot open or read the file returns
\* false and leaves an error record; the handler then answers
\* STRING NOT FOUND unless the transport fails.
C8_Inv ==
    \A c \in Conn :
        "search_file" \in errs[c] =>
            /\ reread_on_query
            /\ ~found[c]
            /\ pc[c] \in {"send", "finished", "closed"}
            /\ (Returned(c) /\ "handle" \notin errs[c])
                  => out[c] = <<"STRING NOT FOUND\n">>

C8_Step ==
    \A c \in Conn :
        (reread_on_query /\ pc[c] = "search" /\ ~openable /\ pc'[c] # "search")
            => /\ pc'[c] = "send"
               /\ ~found'[c]
               /\ errs'[c] = errs[c] \cup {"search_file"}

C8_SearchFailureIsNotFound == [][C8_Inv /\ C8_Inv' /\ C8_Step]_vars

C8_Witness ==
    \E c \in Conn :
        /\ pc[c] = "closed" /\ errs[c] = {"search_file"}
        /\ out[c] = <<"STRING NOT FOUND\n">>

\* C9: the accept loop keeps running; a step in which one connection's
\* handling fails ends or continues that handler only and changes nothing
\* of any other connection nor of the shared configuration.
C9_Step ==
    /\ accepting'
    /\ \A c \in Conn :
          errs'[c] # errs[c] =>
             /\ pc'[c] \in {"send", "finished"}
             /\ "handle" \in errs'[c] => pc'[c] = "finished"
             /\ file_lines' = file_lines
             /\ reread_on_query' = reread_on_query
             /\ \A d \in Conn \ {c} :
                   /\ pc'[d] = pc[d] /\ data'[d] = data[d]
                   /\ query'[d] = query[d] /\ found'[d] = found[d]
                   /\ out'[d] = out[d] /\ pos'[d] = pos[d]
                   /\ errs'[d] = errs[d]

C9_FailureIsLocal == [][C9_Step]_vars

C9_Witness ==
    \E c, d \in Conn :
        /\ c # d /\ accepting
        /\ pc[c] = "closed" /\ "handle" \in errs[c] /\ out[c] = <<>>
        /\ pc[d] = "closed" /\ errs[d] = {}
        /\ out[d] = <<"STRING EXISTS\n">>

\* C10: a request followed by k bytes 0x00 gets the response of the request
\* alone, in both modes; what is removed is exactly the run of 0x00 at the
\* end, leading and interior ones stay.
LastNonNul(d) ==
    LET keep == {i \in 1..Len(d) : d[i] # NUL}
    IN  IF keep = {} THEN 0 ELSE CHOOSE i \in keep : \A j \in keep : i >= j

C10_NulPadding ==
    fn_pc = "done" =>
        /\ fn_res.cachedPad = fn_res.cached
        /\ fn_res.rereadPad = fn_res.reread
        /\ StripNul(fn_req) = SubSeq(fn_req, 1, LastNonNul(fn_req))
        /\ StripNul(Padded(fn_req, fn_res.pad)) = StripNul(fn_req)

C10_Witness ==
    /\ fn_pc = "done" /\ fn_res.pad >= 2 /\ fn_req # <<>>
    /\ fn_res.cached = "STRING EXISTS\n" /\ fn_res.cachedPad = "STRING EXISTS\n"
    /\ fn_res.reread = "STRING EXISTS\n" /\ fn_res.rereadPad = "STRING EXISTS\n"

\* C11: while the file is unchanged, two searches for the same query that
\* both returned without an I/O failure returned the same answer, whatever
\* other searches ran in between and in both modes; and what a search reads
\* (the cached set, the file) is what it was at startup.
SearchReturned(c) ==
    /\ pc[c] = "send" \/ (pc[c] \in {"finished", "closed"} /\ out[c] # <<>>)
    /\ "search_file" \notin errs[c]

C11_RepeatedQuerySameAnswer ==
    ~edited =>
        /\ file_lines = IF reread_on_query THEN {} ELSE LoadFile(file)
        /\ \A c, d \in Conn :
              (SearchReturned(c) /\ SearchReturned(d) /\ query[c] = query[d])
                  => found[c] = found[d]

C11_Witness ==
    \E c, d \in Conn :
        /\ c # d /\ ~edited /\ reread_on_query
        /\ query[c] = query[d] /\ query[c] # <<>>
        /\ pc[c] = "closed" /\ out[c] = <<EXISTS>>
        /\ pc[d] = "finished" /\ out[d] = <<EXISTS>>

\* C17: a connection only moves forward: accepted and reading ("recv"),
\* matching ("search", "scan"), responding ("send"), handler returned
\* ("finished", with "handle" in errs when it returned through its except
\* clause), closed. No position is entered twice; the bytes and the query are
\* set only by the receive, the answer only by the one search that follows
\* it, the response only by the send that follows the search, the except
\* clause is entered only from reading or responding, and nothing of a
\* closed connection changes.
Rank(p) ==
    CASE p = "idle"     -> 0
      [] p = "recv"     -> 1
      [] p = "search"   -> 2
      [] p = "scan"     -> 3
      [] p = "send"     -> 4
      [] p = "finished" -> 5
      [] p = "closed"   -> 6

ForwardEdges ==
    { <<"idle", "recv">>, <<"recv", "search">>, <<"recv", "finished">>,
      <<"search", "scan">>, <<"search", "send">>, <<"scan", "send">>,
      <<"send", "finished">>, <<"finished", "closed">> }

C17_Step ==
    \A c \in Conn :
        /\ pc'[c] # pc[c] =>
              /\ <<pc[c], pc'[c]>> \in ForwardEdges
              /\ Rank(pc'[c]) > Rank(pc[c])
        /\ (data'[c] # data[c] \/ query'[c] # query[c]) =>
              pc[c] = "recv" /\ pc'[c] = "search"
        /\ found'[c] # found[c] =>
              pc[c] \in {"search", "scan"} /\ pc'[c] = "send"
        /\ pos'[c] # pos[c] => pc[c] \in {"search", "scan"}
        /\ out'[c] # out[c] =>
              /\ pc[c] = "send" /\ pc'[c] = "finished"
              /\ out[c] = <<>> /\ Len(out'[c]) = 1
        /\ errs'[c] # errs[c] =>
              IF "handle" \in errs'[c] \ errs[c]
              THEN pc[c] \in {"recv", "send"} /\ pc'[c] = "finished"
              ELSE pc[c] \in {"search", "scan"} /\ pc'[c] = "send"
        /\ pc[c] = "closed" =>
              UNCHANGED <<pc[c], data[c], query[c], found[c], out[c], pos[c],
                          errs[c]>>

C17_ForwardOnly == [][C17_Step]_vars

C17_Witness ==
    \E c, d \in Conn :
        /\ c # d /\ reread_on_query
        /\ pc[c] = "closed" /\ data[c] # <<>> /\ out[c] = <<NOT_FOUND>>
        /\ "search_file" \in errs[c]
        /\ pc[d] = "closed" /\ data[d] # <<>> /\ out[d] = <<>>
        /\ errs[d] = {"handle"}

\* C18: whatever the other connections are doing (blocked in recv, in the
\* middle of a scan, anything), a connection that arrives can be accepted,
\* and an accepted connection's handler can take its next step, up to its
\* response and its close; this at every number of open connections.
Open(c) == pc[c] \notin {"idle", "closed"}

CanStep(c) ==
    CASE pc[c] = "idle"     -> ENABLED Accept(c)
      [] pc[c] = "recv"     -> \A d \in Requests : ENABLED Recv(c, d)
      [] pc[c] = "search"   -> ENABLED (SearchCachedFile(c) \/ OpenFile(c))
      [] pc[c] = "scan"     -> ENABLED ScanLine(c)
      [] pc[c] = "send"     -> ENABLED Send(c)
      [] pc[c] = "finished" -> ENABLED Close(c)
      [] pc[c] = "closed"   -> TRUE

C18_AcceptNeverWaits ==
    /\ accepting
    /\ \A c \in Conn : CanStep(c)

C18_Witness ==
    \E c, d \in Conn :
        /\ c # d
        /\ pc[d] = "scan" /\ pos[d] > 0
        /\ pc[c] = "finished" /\ out[c] = <<EXISTS>> /\ errs[c] = {}
        /\ \A e \in Conn : Open(e)

\* C20: a search in reread mode whose query was a complete line of the file
\* when the search opened it returns true, if the file has only been
\* appended to since and no read failed: whatever the writer appended, in
\* whatever pieces, between two reads of the scan, and whatever the other
\* searches read through their own handles.
C20_Step ==
    \A c \in Conn :
        (pc[c] = "scan" /\ pc'[c] = "send" /\ had[c] /\ errs'[c] = errs[c])
            => found'[c]

C20_AppendNeverHidesLine == [][C20_Step]_vars

\* the scan has read a line, the file has grown since it was opened, the
\* next line is the query's, and another search is elsewhere in the file
C20_Witness ==
    \E c, d \in Conn :
        /\ c # d
        /\ pc[c] = "scan" /\ had[c] /\ dirty[c] /\ pos[c] > 0
        /\ LineMatches(ReadLine(file, pos[c]), query[c])
        /\ pc[d] = "scan" /\ pos[d] # pos[c]

\* C12: ServerConfig built from a dictionary in which linuxpath is missing,
\* REREAD_ON_QUERY is missing, REREAD_ON_QUERY is not true or false in any
\* mix of cases, or linuxpath is not an existing regular file, raises and
\* leaves no configuration.
MappingInvalid(dict) ==
    \/ dict.linuxpath = Absent
    \/ dict.REREAD_ON_QUERY = NoValue
    \/ Lower(dict.REREAD_ON_QUERY) \notin {TrueToken, FalseToken}
    \/ ~IsFile(dict.linuxpath)

C12_InvalidMappingRejected ==
    (boot.phase # "parsed" /\ MappingInvalid(boot.dict))
        => (boot.phase = "failed" /\ boot.err # "none")

\* C13: the process listens, and a handler runs, only after parse_config
\* returned a dictionary, ServerConfig accepted it and, when REREAD_ON_QUERY
\* is false, the file has been loaded into file_lines; a process in which
\* one of them failed has not bound, accepts nothing and sends nothing.
Listening == boot.phase \in {"bound", "serving"}

C13_FailFastOrdered ==
    /\ Listening =>
          /\ parse_config(boot.ini).ok
          /\ boot.dict = parse_config(boot.ini).dict
          /\ ~MappingInvalid(boot.dict)
          /\ reread_on_query = (Lower(boot.dict.REREAD_ON_QUERY) = TrueToken)
          /\ ~reread_on_query => (openable /\ file_lines = LoadFile(file))
    /\ boot.bound <=> Listening
    /\ boot.phase = "failed" => (~boot.bound /\ boot.err # "none")
    /\ boot.phase # "serving" =>
          /\ ~accepting
          /\ \A c \in Conn : pc[c] = "idle" /\ out[c] = <<>>

C13_Witness ==
    /\ boot.phase = "serving" /\ ~reread_on_query /\ file_lines # {}
    /\ \E c \in Conn : pc[c] = "closed" /\ out[c] = <<EXISTS>>

\* C14: the server listens on port 44445 when the configuration has no
\* port, and otherwise only on a port that is a positive integer.
C14_PortPositive ==
    Listening =>
        IF boot.ini.port = NoValue THEN boot.port = DefaultPort
        ELSE ParseInt(boot.ini.port).ok /\ boot.port > 0

\* C16: the one recv of a handler returns the first bytes that have arrived,
\* RecvSize of them at most (all RecvSize when that many are there); no step
\* after it takes a byte of the connection, whatever arrives; the one
\* response is that of the bytes of that recv.
IsPrefix(a, b) == Len(a) <= Len(b) /\ SubSeq(b, 1, Len(a)) = a

C16_Step ==
    \A c \in Conn :
        /\ IF pc[c] = "recv" /\ pc'[c] = "search"
           THEN LET n == IF Len(inbuf[c]) < RecvSize THEN Len(inbuf[c])
                         ELSE RecvSize
                IN  /\ data'[c] = SubSeq(inbuf[c], 1, n)
                    /\ inbuf'[c] = SubSeq(inbuf[c], n + 1, Len(inbuf[c]))
           ELSE /\ data'[c] = data[c]
                /\ IsPrefix(inbuf[c], inbuf'[c]) \/ peer'[c] = "reset"
        /\ out'[c] # out[c] =>
              /\ out[c] = <<>>
              /\ out'[c] = <<HandleOn(file, reread_on_query, data[c])>>

C16_OneReceive == [][C16_Step]_vars

C16_Witness ==
    \E c \in Conn :
        /\ pc[c] = "closed" /\ Len(data[c]) = RecvSize /\ inbuf[c] # <<>>
        /\ out[c] = <<EXISTS>>

\* C15: every value query_server has returned to the loop of the client is
\* one of the two answers, on the first socket and on every later one.
C15_AnswersAreLiterals ==
    \A i \in 1..Len(cli.answers) :
        cli.answers[i] \in {"STRING EXISTS", "STRING NOT FOUND"}

\* C19: a handler that has not returned, and a connection that is not
\* closed, always has a next step it can take by itself: the receive returns
\* whether or not the peer sends anything.
C19_HandlerNeverWaits ==
    \A c \in Conn : Connected(c) => ENABLED HandlerStep(c)

=============================================================================
